---- MODULE Spec2Model ----
(***************************************************************************)
(* Model of parse_mmseqs2_clusters.py: one run of the tool, from main()    *)
(* through the read loop, the sort, the write phase and the summary.       *)
(* Strings are sequences of character codes, so that strip, split, join,   *)
(* the decimal formatting and the lexicographic order are computed.        *)
(***************************************************************************)
EXTENDS Integers, Sequences, FiniteSets

\* ---------------------------------------------------------------- bounds
\* Largest number of lines the input file holds.
MaxLines == 3

\* ---------------------------------------------------------------- state
VARIABLES
  pc,               \* position of the run in the program
  min_size,         \* args.min_size
  lines,            \* the lines the file iterator has yielded so far
  clusters,         \* the dict clusters, in insertion order
  sorted_clusters,  \* the list sorted_clusters
  out_opened,       \* whether the run has opened output_file for writing
  outfile,          \* what the run has put into output_file since opening
  cluster_num,      \* the enumerate() counter of the write loop
  stdout,           \* what the run has printed
  exit_code         \* -1 while running, then the exit status

vars == <<pc, min_size, lines, clusters, sorted_clusters, out_opened,
          outfile, cluster_num, stdout, exit_code>>

\* ------------------------------------------------------- character codes
TAB == 9
LF == 10
COMMA == 44
Digit0 == 48

\* The characters str.strip() removes (the ASCII whitespace characters).
Whitespace == {9, 10, 11, 12, 13, 28, 29, 30, 31, 32}

\* --------------------------------------------------------------- inputs
\* Sequence identifiers "A" and "B".
Names == {<<65>>, <<66>>}

\* The lines the input file is made of, as the file iterator yields them
\* (each with its newline): a blank line; the lines "A", "A<TAB>" and
\* "<TAB>B", which strip to one field; the records of two identifiers; a
\* record of three fields whose second is empty; a record padded with
\* blanks.
InputLines ==
  {<<LF>>, <<65, LF>>, <<65, TAB, LF>>, <<TAB, 66, LF>>}
    \cup {f \o <<TAB>> \o g \o <<LF>> : f \in Names, g \in Names}
    \cup {<<65, TAB, TAB, 66, LF>>, <<32, 66, TAB, 65, 32, LF>>}

\* Values of the --min-size option (default 1).
MinSizes == {1, 3}

\* ------------------------------------------------------ string functions
RECURSIVE LStrip(_)
\* str.strip(), leading part.
LStrip(s) ==
  IF s # <<>> /\ Head(s) \in Whitespace THEN LStrip(Tail(s)) ELSE s

RECURSIVE RStrip(_)
\* str.strip(), trailing part.
RStrip(s) ==
  IF s # <<>> /\ s[Len(s)] \in Whitespace
    THEN RStrip(SubSeq(s, 1, Len(s) - 1))
    ELSE s

\* line.strip()
Strip(s) == RStrip(LStrip(s))

RECURSIVE Split(_, _)
\* str.split(sep) for a one-character separator: always at least one field.
Split(s, sep) ==
  IF \E i \in 1..Len(s) : s[i] = sep
    THEN LET i == CHOOSE k \in 1..Len(s) :
                    s[k] = sep /\ \A j \in 1..(k - 1) : s[j] # sep
         IN  <<SubSeq(s, 1, i - 1)>> \o Split(SubSeq(s, i + 1, Len(s)), sep)
    ELSE <<s>>

RECURSIVE Join(_, _)
\* sep.join(list)
Join(list, sep) ==
  IF list = <<>> THEN <<>>
  ELSE IF Len(list) = 1 THEN list[1]
  ELSE list[1] \o <<sep>> \o Join(Tail(list), sep)

RECURSIVE Str(_)
\* str(n) for n >= 0, as the f-strings format an int.
Str(n) ==
  IF n < 10 THEN <<Digit0 + n>> ELSE Str(n \div 10) \o <<Digit0 + (n % 10)>>

\* a < b for Python strings: code point order, a proper prefix is smaller.
StrLess(a, b) ==
  \E i \in 1..Len(b) :
    /\ \A j \in 1..(i - 1) : j <= Len(a) /\ a[j] = b[j]
    /\ (i > Len(a) \/ a[i] < b[i])

\* set(members)
ToSet(list) == {list[i] : i \in DOMAIN list}

RECURSIVE SortedStrings(_)
\* sorted(S) for a set of strings.
SortedStrings(S) ==
  IF S = {} THEN <<>>
  ELSE LET m == CHOOSE x \in S : \A y \in S : y = x \/ StrLess(x, y)
       IN  <<m>> \o SortedStrings(S \ {m})

\* ------------------------------------------------------------- grouping
\* A faulty variant of AppendMember: a new cluster starts with its
\* representative as a member.
AppendMemberSelf(cl, representative, member) ==
  IF \E i \in DOMAIN cl : cl[i].rep = representative
    THEN [i \in DOMAIN cl |->
            IF cl[i].rep = representative
              THEN [cl[i] EXCEPT !.members = Append(@, member)]
              ELSE cl[i]]
    ELSE Append(cl, [rep |-> representative,
                     members |-> <<representative, member>>])

\* clusters[representative].append(member) on the insertion-ordered dict:
\* a sequence of [rep, members] items in order of first insertion.
AppendMember(cl, representative, member) ==
  IF \E i \in DOMAIN cl : cl[i].rep = representative
    THEN [i \in DOMAIN cl |->
            IF cl[i].rep = representative
              THEN [cl[i] EXCEPT !.members = Append(@, member)]
              ELSE cl[i]]
    ELSE Append(cl, [rep |-> representative, members |-> <<member>>])

\* What the body of the read loop does with one line:
\* "skip" (blank), "warn" (malformed) or "add" (a record).
LineKind(line) ==
  LET s == Strip(line)
  IN  IF s = <<>> THEN "skip"
      ELSE IF Len(Split(s, TAB)) < 2 THEN "warn"
      ELSE "add"

\* A faulty variant of ProcessLine: a malformed line is recorded as a
\* cluster of its own text.
ProcessLineKeepMalformed(cl, line) ==
  LET parts == Split(Strip(line), TAB)
  IN  IF LineKind(line) = "add"
        THEN AppendMember(cl, parts[1], parts[2])
        ELSE IF LineKind(line) = "warn"
          THEN AppendMember(cl, Strip(line), Strip(line))
          ELSE cl

\* The dict after the loop body has run on one line.
ProcessLine(cl, line) ==
  LET parts == Split(Strip(line), TAB)
  IN  IF LineKind(line) = "add"
        THEN AppendMember(cl, parts[1], parts[2])
        ELSE cl

\* -------------------------------------------------------------- sorting
\* key=lambda x: (-len(x[1]), x[0]), compared as Python compares tuples.
KeyLess(x, y) ==
  \/ -Len(x.members) < -Len(y.members)
  \/ /\ Len(x.members) = Len(y.members)
     /\ StrLess(x.rep, y.rep)

RECURSIVE InsertSorted(_, _)
\* Stable insertion of item x into the sorted sequence s.
InsertSorted(s, x) ==
  IF s = <<>> THEN <<x>>
  ELSE IF KeyLess(x, Head(s)) THEN <<x>> \o s
  ELSE <<Head(s)>> \o InsertSorted(Tail(s), x)

RECURSIVE SortClustersMinSize(_)
\* A faulty variant of SortClusters: the clusters with fewer than
\* --min-size records are left out.
SortClustersMinSize(cl) ==
  IF cl = <<>> THEN <<>>
  ELSE IF Len(cl[Len(cl)].members) < min_size
    THEN SortClustersMinSize(SubSeq(cl, 1, Len(cl) - 1))
    ELSE InsertSorted(SortClustersMinSize(SubSeq(cl, 1, Len(cl) - 1)),
                      cl[Len(cl)])

RECURSIVE SortClusters(_)
\* sorted(clusters.items(), key=...)
SortClusters(cl) ==
  IF cl = <<>> THEN <<>>
  ELSE InsertSorted(SortClusters(SubSeq(cl, 1, Len(cl) - 1)), cl[Len(cl)])

\* ------------------------------------------------------------ rendering
RECURSIVE SumRaw(_)
\* sum(len(members) for _, members in sorted_clusters)
SumRaw(sc) ==
  IF sc = <<>> THEN 0 ELSE Len(Head(sc).members) + SumRaw(Tail(sc))

\* The six header lines, in the order they are written.
HeaderLines(sc) ==
  << <<35, 32, 77, 77, 115, 101, 113, 115, 50, 32, 67, 108, 117, 115, 116,
       101, 114, 115, LF>>,
     <<35, 32, 84, 111, 116, 97, 108, 32, 99, 108, 117, 115, 116, 101, 114,
       115, 58, 32>> \o Str(Len(sc)) \o <<LF>>,
     <<35, 32, 84, 111, 116, 97, 108, 32, 115, 101, 113, 117, 101, 110, 99,
       101, 115, 58, 32>> \o Str(SumRaw(sc)) \o <<LF>>,
     <<35, LF>>,
     <<35, 32, 70, 111, 114, 109, 97, 116, 58, 32, 67, 108, 117, 115, 116,
       101, 114, 95, 73, 68, 9, 83, 105, 122, 101, 9, 82, 101, 112, 114,
       101, 115, 101, 110, 116, 97, 116, 105, 118, 101, 9, 77, 101, 109,
       98, 101, 114, 115, 32, 40, 99, 111, 109, 109, 97, 45, 115, 101, 112,
       97, 114, 97, 116, 101, 100, 41, LF>>,
     <<35, LF>> >>

\* A faulty variant of AllMembers: the list as recorded, neither
\* deduplicated nor sorted.
AllMembersRaw(members) == members

\* all_members = sorted(set(members))
AllMembers(members) == SortedStrings(ToSet(members))

\* A faulty variant of ClusterLine: the numbering starts at 0.
ClusterLineZeroBased(num, item) ==
  LET all_members == AllMembers(item.members)
  IN  <<67, 108, 117, 115, 116, 101, 114, 95>> \o Str(num - 1) \o <<TAB>>
        \o Str(Len(all_members)) \o <<TAB>> \o item.rep \o <<TAB>>
        \o Join(all_members, COMMA) \o <<LF>>

\* f"Cluster_{cluster_num}\t{size}\t{representative}\t{members_str}\n"
ClusterLine(num, item) ==
  LET all_members == AllMembers(item.members)
      size == Len(all_members)
      members_str == Join(all_members, COMMA)
  IN  <<67, 108, 117, 115, 116, 101, 114, 95>> \o Str(num) \o <<TAB>>
        \o Str(size) \o <<TAB>> \o item.rep \o <<TAB>> \o members_str
        \o <<LF>>

\* A faulty variant of Largest: the deduplicated size of the first group.
LargestDedup(sc) == IF sc # <<>> THEN Len(AllMembers(sc[1].members)) ELSE 0

\* len(sorted_clusters[0][1]) if sorted_clusters else 0
Largest(sc) == IF sc # <<>> THEN Len(sc[1].members) ELSE 0

\* -------------------------------------------------------------- actions
Msg(kind, text) == [kind |-> kind, text |-> text]

Init ==
  /\ pc = "main"
  /\ min_size \in MinSizes
  /\ lines = <<>>
  /\ clusters = <<>>
  /\ sorted_clusters = <<>>
  /\ out_opened = FALSE
  /\ outfile = <<>>
  /\ cluster_num = 0
  /\ stdout = <<>>
  /\ exit_code = -1

\* main(): the note for --min-size above 1, then the call.
Main ==
  /\ pc = "main"
  /\ stdout' = IF min_size > 1
                 THEN Append(stdout, Msg("note", <<min_size>>))
                 ELSE stdout
  /\ pc' = "open_in"
  /\ UNCHANGED <<min_size, lines, clusters, sorted_clusters, out_opened,
                 outfile, cluster_num, exit_code>>

\* A faulty variant of OpenInput: the output file is opened for writing
\* together with the input.
OpenInputAndOutput ==
  /\ pc = "open_in"
  /\ pc' = "read"
  /\ out_opened' = TRUE
  /\ UNCHANGED <<min_size, lines, clusters, sorted_clusters, outfile,
                 cluster_num, stdout, exit_code>>

\* open(tsv_file, 'r') succeeds.
OpenInput ==
  /\ pc = "open_in"
  /\ pc' = "read"
  /\ UNCHANGED <<min_size, lines, clusters, sorted_clusters, out_opened,
                 outfile, cluster_num, stdout, exit_code>>

\* open(tsv_file, 'r') raises FileNotFoundError: message and sys.exit(1).
InputNotFound ==
  /\ pc = "open_in"
  /\ stdout' = Append(stdout, Msg("not_found", <<>>))
  /\ exit_code' = 1
  /\ pc' = "exit"
  /\ UNCHANGED <<min_size, lines, clusters, sorted_clusters, out_opened,
                 outfile, cluster_num>>

\* One iteration of the read loop on the next line of the file.
ReadLine ==
  /\ pc = "read"
  /\ Len(lines) < MaxLines
  /\ \E line \in InputLines :
       /\ lines' = Append(lines, line)
       /\ clusters' = ProcessLine(clusters, line)
       /\ stdout' = IF LineKind(line) = "warn"
                      THEN Append(stdout, Msg("warning", Strip(line)))
                      ELSE stdout
  /\ UNCHANGED <<pc, min_size, sorted_clusters, out_opened, outfile,
                 cluster_num, exit_code>>

\* Opening or reading the input raises any other exception (at the open
\* or at any line): message and sys.exit(1).
ReadError ==
  /\ pc \in {"open_in", "read"}
  /\ stdout' = Append(stdout, Msg("read_error", <<>>))
  /\ exit_code' = 1
  /\ pc' = "exit"
  /\ UNCHANGED <<min_size, lines, clusters, sorted_clusters, out_opened,
                 outfile, cluster_num>>

\* The file is exhausted: the loop ends, the input is closed, the
\* clusters are sorted.
EndOfInput ==
  /\ pc = "read"
  /\ sorted_clusters' = SortClusters(clusters)
  /\ pc' = "open_out"
  /\ UNCHANGED <<min_size, lines, clusters, out_opened, outfile,
                 cluster_num, stdout, exit_code>>

\* open(output_file, 'w') succeeds: the file is created or truncated.
OpenOutput ==
  /\ pc = "open_out"
  /\ out_opened' = TRUE
  /\ outfile' = <<>>
  /\ pc' = "write_header"
  /\ UNCHANGED <<min_size, lines, clusters, sorted_clusters, cluster_num,
                 stdout, exit_code>>

\* The six header writes.
WriteHeader ==
  /\ pc = "write_header"
  /\ outfile' = outfile \o HeaderLines(sorted_clusters)
  /\ cluster_num' = 1
  /\ pc' = "write_clusters"
  /\ UNCHANGED <<min_size, lines, clusters, sorted_clusters, out_opened,
                 stdout, exit_code>>

\* One iteration of the write loop.
WriteCluster ==
  /\ pc = "write_clusters"
  /\ cluster_num <= Len(sorted_clusters)
  /\ outfile' = Append(outfile,
                       ClusterLine(cluster_num, sorted_clusters[cluster_num]))
  /\ cluster_num' = cluster_num + 1
  /\ UNCHANGED <<pc, min_size, lines, clusters, sorted_clusters, out_opened,
                 stdout, exit_code>>

\* The write phase raises (the open at pc = "open_out", or a write after
\* it): the with-block closes the file with what was written so far, then
\* message and sys.exit(1).
WriteError ==
  /\ pc \in {"open_out", "write_header", "write_clusters"}
  /\ stdout' = Append(stdout, Msg("write_error", <<>>))
  /\ exit_code' = 1
  /\ pc' = "exit"
  /\ UNCHANGED <<min_size, lines, clusters, sorted_clusters, out_opened,
                 outfile, cluster_num>>

\* The write loop is over: the file is closed, the summary is printed and
\* the process ends with status 0.
Summary ==
  /\ pc = "write_clusters"
  /\ cluster_num > Len(sorted_clusters)
  /\ stdout' = Append(stdout,
                      Msg("summary", <<Len(sorted_clusters),
                                       SumRaw(sorted_clusters),
                                       Largest(sorted_clusters)>>))
  /\ exit_code' = 0
  /\ pc' = "done"
  /\ UNCHANGED <<min_size, lines, clusters, sorted_clusters, out_opened,
                 outfile, cluster_num>>

Next ==
  \/ Main
  \/ OpenInput
  \/ InputNotFound
  \/ ReadLine
  \/ ReadError
  \/ EndOfInput
  \/ OpenOutput
  \/ WriteHeader
  \/ WriteCluster
  \/ WriteError
  \/ Summary

Spec == Init /\ [][Next]_vars

\* ------------------------------------------- reading the report back
\* A written line without its newline.
ChopLF(l) == SubSeq(l, 1, Len(l) - 1)

RECURSIVE ParseInt(_)
\* The number a string of decimal digits denotes.
ParseInt(s) ==
  IF s = <<>> THEN 0
  ELSE 10 * ParseInt(SubSeq(s, 1, Len(s) - 1)) + (s[Len(s)] - Digit0)

\* The value of the '# Total clusters:' line of a file with a header.
HeaderClusters(file) == ParseInt(SubSeq(ChopLF(file[2]), 19, Len(file[2]) - 1))

\* The value of the '# Total sequences:' line of a file with a header.
HeaderSequences(file) ==
  ParseInt(SubSeq(ChopLF(file[3]), 20, Len(file[3]) - 1))

\* The cluster lines of a file: what follows the six header lines.
Rows(file) == IF Len(file) > 6 THEN SubSeq(file, 7, Len(file)) ELSE <<>>

\* The four tab-separated columns of a cluster line.
RowFields(row) == Split(ChopLF(row), TAB)

RowLabel(row) == SubSeq(RowFields(row)[1], 1, 8)
RowNum(row) == ParseInt(SubSeq(RowFields(row)[1], 9, Len(RowFields(row)[1])))
RowSize(row) == ParseInt(RowFields(row)[2])
RowRep(row) == RowFields(row)[3]
RowMembers(row) == Split(RowFields(row)[4], COMMA)

RECURSIVE SumSizes(_)
\* The sum of the Size columns of a sequence of cluster lines.
SumSizes(rows) ==
  IF rows = <<>> THEN 0 ELSE RowSize(Head(rows)) + SumSizes(Tail(rows))

\* --------------------------------------------- the input, declaratively
\* A well-formed record: non-empty once stripped, at least two fields.
WellFormed(line) ==
  Strip(line) # <<>> /\ Len(Split(Strip(line), TAB)) >= 2

\* A malformed line: non-empty once stripped, fewer than two fields.
Malformed(line) ==
  Strip(line) # <<>> /\ Len(Split(Strip(line), TAB)) < 2

RecRep(line) == Split(Strip(line), TAB)[1]
RecMember(line) == Split(Strip(line), TAB)[2]

\* The positions of the well-formed records of an input.
RecordsAt(ls) == {i \in DOMAIN ls : WellFormed(ls[i])}

\* The distinct representatives of an input.
RepsOf(ls) == {RecRep(ls[i]) : i \in RecordsAt(ls)}

\* The distinct members recorded for representative r.
MembersOf(ls, r) ==
  {RecMember(ls[i]) : i \in {k \in RecordsAt(ls) : RecRep(ls[k]) = r}}

\* The number of records of representative r.
RawCount(ls, r) == Cardinality({k \in RecordsAt(ls) : RecRep(ls[k]) = r})

\* The largest number of records of one representative, 0 without records.
MaxRaw(ls) ==
  IF RepsOf(ls) = {} THEN 0
  ELSE CHOOSE n \in {RawCount(ls, r) : r \in RepsOf(ls)} :
         \A r \in RepsOf(ls) : RawCount(ls, r) <= n

\* The input without its malformed lines.
WithoutMalformed(ls) == LET Keep(l) == ~Malformed(l) IN SelectSeq(ls, Keep)

RECURSIVE Grouped(_)
\* The dict a read loop builds from a whole input.
Grouped(ls) ==
  IF ls = <<>> THEN <<>>
  ELSE ProcessLine(Grouped(SubSeq(ls, 1, Len(ls) - 1)), ls[Len(ls)])

\* The complete report a run without failure writes for an input.
ReportOf(ls) ==
  LET sc == SortClusters(Grouped(ls))
  IN  HeaderLines(sc) \o [i \in 1..Len(sc) |-> ClusterLine(i, sc[i])]

\* The kinds of the messages printed so far, and the last of them.
LastKind == IF stdout = <<>> THEN "none" ELSE stdout[Len(stdout)].kind
Warnings == LET W(m) == m.kind = "warning" IN SelectSeq(stdout, W)
Done == pc = "done"

\* ---------------------------------------------------------------- claims
\* C1: the '# Total sequences:' value equals the sum of the Size columns of
\* the cluster lines, which equals the number of distinct
\* (representative, member) pairs of the input.
ClaimC1_TotalIsSumOfSizes ==
  Done =>
    /\ HeaderSequences(outfile) = SumSizes(Rows(outfile))
    /\ SumSizes(Rows(outfile)) =
         Cardinality({<<RecRep(lines[i]), RecMember(lines[i])>> :
                        i \in RecordsAt(lines)})

\* C2: consecutive cluster lines are in descending order of the printed
\* Size, and for equal Size in ascending order of the representative.
ClaimC2_OrderedByPrintedSize ==
  Done =>
    \A i \in 1..(Len(Rows(outfile)) - 1) :
      LET a == Rows(outfile)[i]
          b == Rows(outfile)[i + 1]
      IN  \/ RowSize(a) > RowSize(b)
          \/ RowSize(a) = RowSize(b) /\ StrLess(RowRep(a), RowRep(b))

\* C3: on every cluster line written, the Members column lists the distinct
\* members recorded for the representative, each once and in strictly
\* ascending order, and the Size column is the length of that list.
ThmC3_MembersDedupSorted ==
  \A k \in DOMAIN Rows(outfile) :
    LET row == Rows(outfile)[k]
        ms == RowMembers(row)
    IN  /\ \A i \in 1..(Len(ms) - 1) : StrLess(ms[i], ms[i + 1])
        /\ ToSet(ms) = MembersOf(lines, RowRep(row))
        /\ RowSize(row) = Len(ms)

\* C3 witness: a finished report with a line of two members whose
\* representative has more records than distinct members.
WitC3 ==
  /\ Done
  /\ \E k \in DOMAIN Rows(outfile) :
       /\ RowSize(Rows(outfile)[k]) = 2
       /\ RawCount(lines, RowRep(Rows(outfile)[k])) > 2

ThmC5_Numbering ==
  /\ \A k \in DOMAIN Rows(outfile) :
       /\ RowLabel(Rows(outfile)[k]) = <<67, 108, 117, 115, 116, 101, 114, 95>>
       /\ RowNum(Rows(outfile)[k]) = k
  /\ Done =>
       /\ HeaderClusters(outfile) = Len(Rows(outfile))
       /\ HeaderClusters(outfile) = Cardinality(RepsOf(lines))
       /\ RecordsAt(lines) = {} =>
            /\ HeaderClusters(outfile) = 0
            /\ HeaderSequences(outfile) = 0
            /\ Len(outfile) = 6

\* C5 witness: a finished report with two cluster lines.
WitC5 == Done /\ Len(Rows(outfile)) = 2

\* The part of C6 the code does not bear out: the text of a malformed line
\* is neither the representative nor a member of any cluster line.
MalformedTextAbsent ==
  Done =>
    \A i \in DOMAIN lines :
      Malformed(lines[i]) =>
        \A k \in DOMAIN Rows(outfile) :
          /\ RowRep(Rows(outfile)[k]) # Strip(lines[i])
          /\ Strip(lines[i]) \notin ToSet(RowMembers(Rows(outfile)[k]))

\* C6, amended: while reading and when the run has finished, the malformed
\* lines are the lines warned about, in order, and the dict is the one
\* built from the input without them; a
\* run ends with status 1 only after an I/O error; and a finished report
\* is the report of the input without its malformed lines.
ThmC6_MalformedSkipped ==
  /\ pc \in {"read", "open_out", "done"} =>
       /\ [i \in DOMAIN Warnings |-> Warnings[i].text]
            = LET Bad(l) == Malformed(l)
                  bad == SelectSeq(lines, Bad)
              IN  [i \in DOMAIN bad |-> Strip(bad[i])]
       /\ clusters = Grouped(WithoutMalformed(lines))
  /\ exit_code = 1 => LastKind \in {"not_found", "read_error", "write_error"}
  /\ Done => exit_code = 0 /\ outfile = ReportOf(WithoutMalformed(lines))

\* C6 as stated: the amended statement and the absence of the text.
ClaimC6_AsStated == ThmC6_MalformedSkipped /\ MalformedTextAbsent

\* C6 witness: a finished run whose input has a malformed line before a
\* well-formed record.
WitC6 ==
  /\ Done
  /\ \E i \in DOMAIN lines :
       /\ Malformed(lines[i])
       /\ \E j \in RecordsAt(lines) : j > i

\* C7: when opening or reading the input fails, the run ends with status 1
\* and has not opened the output file; the output file is opened only
\* after the read phase.
ThmC7_ReadFailureLeavesOutput ==
  /\ LastKind \in {"not_found", "read_error"} =>
       pc = "exit" /\ exit_code = 1 /\ ~out_opened /\ outfile = <<>>
  /\ pc \in {"main", "open_in", "read", "open_out"} =>
       ~out_opened /\ outfile = <<>>

\* C7 witness: a read failure after two lines have been read.
WitC7 == pc = "exit" /\ LastKind = "read_error" /\ Len(lines) = 2

\* C8: a run that has ended has left the output file untouched or has
\* written the complete report.
ClaimC8_NoPartialReport ==
  pc \in {"done", "exit"} => ~out_opened \/ outfile = ReportOf(lines)

ThmC10_LargestIsRawCount ==
  Done =>
    LET largest == stdout[Len(stdout)].text[3]
    IN  /\ stdout[Len(stdout)].kind = "summary"
        /\ largest = MaxRaw(lines)
        /\ sorted_clusters = <<>> => largest = 0
        /\ sorted_clusters # <<>> =>
             /\ largest = Len(sorted_clusters[1].members)
             /\ largest = RawCount(lines, RowRep(Rows(outfile)[1]))
             /\ largest >= RowSize(Rows(outfile)[1])

\* C10 witness: a finished run whose 'Largest cluster size' differs from
\* the Size printed on the Cluster_1 line.
WitC10 ==
  /\ Done
  /\ Rows(outfile) # <<>>
  /\ stdout[Len(stdout)].text[3] # RowSize(Rows(outfile)[1])

====
